---- MODULE Spec2Model ----
(***************************************************************************)
(* Rule synthesis of src/model/rules/rule-creation.ts: the matchers built  *)
(* from a captured request, the rules built from a request and from an     *)
(* exchange, and the default rule tree.                                    *)
(*                                                                         *)
(* Data representation.                                                    *)
(*  - A JS string is a sequence of code points (Str turns a tuple of       *)
(*    one-character strings into one).                                     *)
(*  - A Buffer is [kind |-> "Buffer", bytes, pad]: the given bytes      *)
(*    followed by pad bytes 0x20.  A body string is                        *)
(*    [kind |-> "string", chars, pad]: the chars followed by pad spaces.   *)
(*    The run of spaces is kept as a count so that bodies of 10,000 bytes  *)
(*    are values TLC can hold.                                             *)
(*  - A JS object that the code mutates (a header mapping) lives in        *)
(*    `heap`, and is named by its reference.                               *)
(***************************************************************************)
EXTENDS Integers, Sequences, FiniteSets, TLC

VARIABLES
    request,     \* the captured request handed to buildRuleFromRequest
    exchange,    \* the exchange handed to buildRuleFromExchange
    proxyStore,  \* the ProxyStore handed to the default-rule builders
    heap,        \* the header objects, by reference
    issued,      \* the identifiers uuid() has returned so far
    returned,    \* what the rule-building calls returned so far: <<[op, id]>>
    result       \* the last call and the value it returned

vars == <<request, exchange, proxyStore, heap, issued, returned, result>>

Undefined == [kind |-> "undefined"]

(***************************************************************************)
(* Bounds of the model.                                                    *)
(***************************************************************************)
\* Calls of the rule builders in one behaviour.
MaxCalls == 2
\* Body sizes are taken up to this far on each side of a size limit.
MaxOver == 1

(***************************************************************************)
(* Characters and strings.                                                 *)
(***************************************************************************)
\* The printable ASCII characters, code points 32..126, in order (GRAVE
\* stands for the grave accent, code point 96).
Ascii ==
    <<" ", "!", "\"", "#", "$", "%", "&", "'", "(", ")", "*", "+", ",", "-", ".", "/",
      "0", "1", "2", "3", "4", "5", "6", "7", "8", "9", ":", ";", "<", "=", ">", "?",
      "@", "A", "B", "C", "D", "E", "F", "G", "H", "I", "J", "K", "L", "M", "N", "O",
      "P", "Q", "R", "S", "T", "U", "V", "W", "X", "Y", "Z", "[", "\\", "]", "^", "_",
      "GRAVE", "a", "b", "c", "d", "e", "f", "g", "h", "i", "j", "k", "l", "m", "n", "o",
      "p", "q", "r", "s", "t", "u", "v", "w", "x", "y", "z", "{", "|", "}", "~">>

\* The code point of each ASCII character.
CodePoint ==
    [c \in {Ascii[i] : i \in 1..Len(Ascii)} |->
        31 + (CHOOSE i \in 1..Len(Ascii) : Ascii[i] = c)]

Ord(c) == CodePoint[c]

Str(cs) == [i \in 1..Len(cs) |-> Ord(cs[i])]

SPACE == Ord(" ")

\* Buffer.prototype.toString('utf8') on the bytes of a buffer: one- and
\* two-byte sequences are decoded, anything else decodes to U+FFFD (65533).
RECURSIVE Utf8Decode(_)
Utf8Decode(bytes) ==
    IF bytes = <<>> THEN <<>>
    ELSE LET b == Head(bytes) IN
         IF b < 128 THEN <<b>> \o Utf8Decode(Tail(bytes))
         ELSE IF /\ b >= 194 /\ b <= 223 /\ Len(bytes) >= 2
                 /\ bytes[2] >= 128 /\ bytes[2] <= 191
              THEN <<(b - 192) * 64 + (bytes[2] - 128)>>
                       \o Utf8Decode(Tail(Tail(bytes)))
              ELSE <<65533>> \o Utf8Decode(Tail(bytes))

\* The UTF-8 bytes of a string (Buffer.from(string)).
RECURSIVE Utf8Encode(_)
Utf8Encode(chars) ==
    IF chars = <<>> THEN <<>>
    ELSE LET c == Head(chars) IN
         (IF c < 128 THEN <<c>>
          ELSE IF c < 2048 THEN <<192 + (c \div 64), 128 + (c % 64)>>
          ELSE <<224 + (c \div 4096), 128 + ((c \div 64) % 64), 128 + (c % 64)>>)
         \o Utf8Encode(Tail(chars))

Buffer(bytes, pad) == [kind |-> "Buffer", bytes |-> bytes, pad |-> pad]
String(chars, pad) == [kind |-> "string", chars |-> chars, pad |-> pad]

\* buffer.length
BufferLength(buf) == Len(buf.bytes) + buf.pad

\* buffer.toString(): the pad bytes are spaces and decode to spaces.
BufferToString(buf) == String(Utf8Decode(buf.bytes), buf.pad)

\* Number.prototype.toString() of a natural number.
RECURSIVE NumberToString(_)
NumberToString(n) ==
    IF n < 10 THEN <<Ord("0") + n>>
    ELSE NumberToString(n \div 10) \o <<Ord("0") + (n % 10)>>

\* util's byteLength: a buffer's length, a string's length in UTF-8, 0 for
\* nothing.
byteLength(input) ==
    IF input = Undefined THEN 0
    ELSE IF input.kind = "string"
         THEN Len(Utf8Encode(input.chars)) + input.pad
         ELSE BufferLength(input)

(***************************************************************************)
(* JSON.  JSON.parse is modelled on the grammar the inputs use: the        *)
(* literals, integers, strings without escapes, arrays and objects, with   *)
(* whitespace between tokens.  A parsed value is a tagged record.          *)
(***************************************************************************)
JsonNull == [kind |-> "null"]
JsonBool(b) == [kind |-> "boolean", value |-> b]
JsonNumber(n) == [kind |-> "number", value |-> n]
JsonString(cs) == [kind |-> "jsonstring", value |-> cs]
JsonArray(vs) == [kind |-> "array", items |-> vs]
JsonObject(ms) == [kind |-> "object", members |-> ms]

Whitespace == {32, 9, 10, 13}
QUOTE == Ord("\"")

SetMin(S) == CHOOSE x \in S : \A y \in S : x <= y
SetMax(S) == CHOOSE x \in S : \A y \in S : x >= y

Trim(s) ==
    LET solid == {i \in 1..Len(s) : s[i] \notin Whitespace}
    IN  IF solid = {} THEN <<>> ELSE SubSeq(s, SetMin(solid), SetMax(solid))

IsDigit(c) == c >= Ord("0") /\ c <= Ord("9")

\* -?(0|[1-9][0-9]*)
IsIntegerToken(s) ==
    LET digits == IF s # <<>> /\ s[1] = Ord("-") THEN Tail(s) ELSE s
    IN  /\ digits # <<>>
        /\ \A i \in 1..Len(digits) : IsDigit(digits[i])
        /\ (Len(digits) > 1 => digits[1] # Ord("0"))

RECURSIVE DigitsValue(_)
DigitsValue(digits) ==
    IF digits = <<>> THEN 0
    ELSE 10 * DigitsValue(SubSeq(digits, 1, Len(digits) - 1))
             + (digits[Len(digits)] - Ord("0"))

IntegerValue(s) ==
    IF s[1] = Ord("-") THEN 0 - DigitsValue(Tail(s)) ELSE DigitsValue(s)

\* "..." with no quote, backslash or control character inside.
IsStringToken(s) ==
    /\ Len(s) >= 2
    /\ s[1] = QUOTE
    /\ s[Len(s)] = QUOTE
    /\ \A i \in 2..(Len(s) - 1) : s[i] # QUOTE /\ s[i] # Ord("\\") /\ s[i] >= 32

\* The pieces of s between the occurrences of sep that are outside every
\* string and every bracket.
RECURSIVE SplitScan(_, _, _, _, _, _, _)
SplitScan(s, sep, i, depth, inString, cur, acc) ==
    IF i > Len(s) THEN Append(acc, cur)
    ELSE LET c == s[i] IN
         IF inString
         THEN SplitScan(s, sep, i + 1, depth, c # QUOTE, Append(cur, c), acc)
         ELSE IF c = QUOTE
         THEN SplitScan(s, sep, i + 1, depth, TRUE, Append(cur, c), acc)
         ELSE IF c \in {Ord("["), Ord("{")}
         THEN SplitScan(s, sep, i + 1, depth + 1, FALSE, Append(cur, c), acc)
         ELSE IF c \in {Ord("]"), Ord("}")}
         THEN SplitScan(s, sep, i + 1, depth - 1, FALSE, Append(cur, c), acc)
         ELSE IF c = sep /\ depth = 0
         THEN SplitScan(s, sep, i + 1, depth, FALSE, <<>>, Append(acc, cur))
         ELSE SplitScan(s, sep, i + 1, depth, FALSE, Append(cur, c), acc)

SplitTop(s, sep) == SplitScan(s, sep, 1, 0, FALSE, <<>>, <<>>)

\* An object's members with key set to value: a repeated key keeps its
\* place and takes the later value.
SetMember(members, key, value) ==
    IF \E i \in 1..Len(members) : members[i].key = key
    THEN [i \in 1..Len(members) |->
             IF members[i].key = key THEN [key |-> key, value |-> value]
             ELSE members[i]]
    ELSE Append(members, [key |-> key, value |-> value])

\* JSON.parse of one value, Undefined where JSON.parse throws.
NullText == Str(<<"n", "u", "l", "l">>)
TrueText == Str(<<"t", "r", "u", "e">>)
FalseText == Str(<<"f", "a", "l", "s", "e">>)

RECURSIVE JsonParseValue(_)
RECURSIVE JsonParseItems(_)
RECURSIVE JsonParseMembers(_)

Failed == [ok |-> FALSE, value |-> <<>>]
Parsed(v) == [ok |-> TRUE, value |-> v]

\* The values of the pieces of an array; Failed when one is no value.
JsonParseItems(pieces) ==
    IF pieces = <<>> THEN Parsed(<<>>)
    ELSE LET v == JsonParseValue(Trim(Head(pieces)))
             rest == JsonParseItems(Tail(pieces))
         IN  IF v = Undefined \/ ~rest.ok THEN Failed
             ELSE Parsed(<<v>> \o rest.value)

\* The members of the pieces of an object, last piece last.
JsonParseMembers(pieces) ==
    IF pieces = <<>> THEN Parsed(<<>>)
    ELSE LET before == JsonParseMembers(SubSeq(pieces, 1, Len(pieces) - 1))
             halves == SplitTop(pieces[Len(pieces)], Ord(":"))
         IN  IF ~before.ok \/ Len(halves) # 2 THEN Failed
             ELSE LET key == Trim(halves[1])
                      v == JsonParseValue(Trim(halves[2]))
                  IN  IF ~IsStringToken(key) \/ v = Undefined THEN Failed
                      ELSE Parsed(SetMember(before.value,
                                            SubSeq(key, 2, Len(key) - 1), v))

JsonParseValue(s) ==
    IF s = NullText THEN JsonNull
    ELSE IF s = TrueText THEN JsonBool(TRUE)
    ELSE IF s = FalseText THEN JsonBool(FALSE)
    ELSE IF IsIntegerToken(s) THEN JsonNumber(IntegerValue(s))
    ELSE IF IsStringToken(s) THEN JsonString(SubSeq(s, 2, Len(s) - 1))
    ELSE IF Len(s) >= 2 /\ s[1] = Ord("[") /\ s[Len(s)] = Ord("]")
    THEN LET inner == Trim(SubSeq(s, 2, Len(s) - 1)) IN
         IF inner = <<>> THEN JsonArray(<<>>)
         ELSE LET items == JsonParseItems(SplitTop(inner, Ord(","))) IN
              IF items.ok THEN JsonArray(items.value) ELSE Undefined
    ELSE IF Len(s) >= 2 /\ s[1] = Ord("{") /\ s[Len(s)] = Ord("}")
    THEN LET inner == Trim(SubSeq(s, 2, Len(s) - 1)) IN
         IF inner = <<>> THEN JsonObject(<<>>)
         ELSE LET members == JsonParseMembers(SplitTop(inner, Ord(","))) IN
              IF members.ok THEN JsonObject(members.value) ELSE Undefined
    ELSE Undefined

\* JSON.parse of a body string: its trailing run of spaces is whitespace.
JsonParse(str) == JsonParseValue(Trim(str.chars))

\* util's tryParseJson: the parsed value, undefined when the text does not
\* parse.
tryParseJson(str) == JsonParse(str)

\* JavaScript's ToBoolean, as !! and || and if() apply it.
Truthy(v) ==
    CASE v.kind = "undefined" -> FALSE
      [] v.kind = "null" -> FALSE
      [] v.kind = "boolean" -> v.value
      [] v.kind = "number" -> v.value # 0
      [] v.kind = "jsonstring" -> v.value # <<>>
      [] v.kind = "string" -> Len(v.chars) + v.pad > 0
      [] OTHER -> TRUE

(***************************************************************************)
(* URLs and query strings.                                                 *)
(***************************************************************************)
\* String.prototype.split(sep): the pieces between every occurrence of sep.
RECURSIVE SplitFrom(_, _, _, _, _)
SplitFrom(s, sep, i, cur, acc) ==
    IF i > Len(s) THEN Append(acc, cur)
    ELSE IF s[i] = sep THEN SplitFrom(s, sep, i + 1, <<>>, Append(acc, cur))
    ELSE SplitFrom(s, sep, i + 1, Append(cur, s[i]), acc)

Split(s, sep) == SplitFrom(s, sep, 1, <<>>, <<>>)

\* Array.prototype.join(sep)
RECURSIVE Join(_, _)
Join(pieces, sep) ==
    IF pieces = <<>> THEN <<>>
    ELSE IF Len(pieces) = 1 THEN pieces[1]
    ELSE pieces[1] \o <<sep>> \o Join(Tail(pieces), sep)

IsHexDigit(c) ==
    \/ IsDigit(c)
    \/ (c >= Ord("a") /\ c <= Ord("f"))
    \/ (c >= Ord("A") /\ c <= Ord("F"))

HexValue(c) ==
    IF IsDigit(c) THEN c - Ord("0")
    ELSE IF c >= Ord("a") THEN 10 + c - Ord("a")
    ELSE 10 + c - Ord("A")

\* The bytes a query-string piece stands for: + is a space, %XX is the byte
\* XX, any other character its UTF-8 bytes.
RECURSIVE QsBytes(_)
QsBytes(s) ==
    IF s = <<>> THEN <<>>
    ELSE IF s[1] = Ord("+") THEN <<SPACE>> \o QsBytes(Tail(s))
    ELSE IF /\ s[1] = Ord("%") /\ Len(s) >= 3
            /\ IsHexDigit(s[2]) /\ IsHexDigit(s[3])
         THEN <<16 * HexValue(s[2]) + HexValue(s[3])>>
                  \o QsBytes(SubSeq(s, 4, Len(s)))
    ELSE Utf8Encode(<<s[1]>>) \o QsBytes(Tail(s))

\* querystring.unescape
QsUnescape(s) == Utf8Decode(QsBytes(s))

\* The query object with one more key=value: a key seen before collects its
\* values in an array, in order of occurrence.
QsAdd(entries, key, value) ==
    IF \E i \in 1..Len(entries) : entries[i].key = key
    THEN [i \in 1..Len(entries) |->
             IF entries[i].key = key
             THEN [key |-> key, isArray |-> TRUE,
                   values |-> Append(entries[i].values, value)]
             ELSE entries[i]]
    ELSE Append(entries, [key |-> key, isArray |-> FALSE, values |-> <<value>>])

RECURSIVE QsCollect(_)
QsCollect(pieces) ==
    IF pieces = <<>> THEN <<>>
    ELSE LET before == QsCollect(SubSeq(pieces, 1, Len(pieces) - 1))
             piece == pieces[Len(pieces)]
             eq == {i \in 1..Len(piece) : piece[i] = Ord("=")}
         IN  IF piece = <<>> THEN before
             ELSE IF eq = {} THEN QsAdd(before, QsUnescape(piece), <<>>)
             ELSE QsAdd(before,
                        QsUnescape(SubSeq(piece, 1, SetMin(eq) - 1)),
                        QsUnescape(SubSeq(piece, SetMin(eq) + 1, Len(piece))))

\* querystring.parse: the key -> value-or-values object of a query string,
\* its keys in order of first occurrence.
querystringParse(query) == QsCollect(Split(query, Ord("&")))

(***************************************************************************)
(* Matchers.                                                               *)
(***************************************************************************)
\* The method names HttpRule.MethodMatchers has a matcher class for.
MethodNames == {"GET", "POST", "PUT", "DELETE", "PATCH", "HEAD", "OPTIONS"}

MethodMatcher(method) == [type |-> "method", method |-> method]
WildcardMatcher == [type |-> "wildcard"]
SimplePathMatcher(path) == [type |-> "simple-path", path |-> path]
QueryMatcher(queryObject) == [type |-> "query", queryObject |-> queryObject]
JsonBodyMatcher(body) == [type |-> "json-body", body |-> body]
RawBodyMatcher(content) == [type |-> "raw-body", content |-> content]
AmIUsingMatcher == [type |-> "am-i-using"]
DefaultWildcardMatcher == [type |-> "default-wildcard"]
DefaultWebSocketWildcardMatcher == [type |-> "default-ws-wildcard"]
HostMatcher(host) == [type |-> "host", host |-> host]

\* NewMethodMatcher without the fallback to the wildcard matcher.
NewMethodMatcherNoFallback(method) == MethodMatcher(method)

\* new (HttpRule.MethodMatchers[method] || HttpRule.WildcardMatcher)()
NewMethodMatcher(method) ==
    IF method \in MethodNames THEN MethodMatcher(method) ELSE WildcardMatcher

\* The largest decoded request body, exclusive, that gets a body matcher.
BodyMatcherLimit == 10000

\* hasBody with the limit taken inclusive.
hasBodyInclusive(req) ==
    /\ Truthy(req.body.decoded)
    /\ BufferLength(req.body.decoded) <= BodyMatcherLimit

hasBody(req) ==
    /\ Truthy(req.body.decoded)
    /\ BufferLength(req.body.decoded) < BodyMatcherLimit

hasJsonBody(req) ==
    /\ hasBody(req)
    /\ req.contentType = "json"
    /\ Truthy(tryParseJson(BufferToString(req.body.decoded)))

\* bodyMatcher without the fallback to the raw body.
bodyMatcherJsonOnly(req) ==
    IF hasJsonBody(req)
    THEN <<JsonBodyMatcher(tryParseJson(BufferToString(req.body.decoded)))>>
    ELSE <<>>

bodyMatcher(req) ==
    IF hasJsonBody(req)
    THEN <<JsonBodyMatcher(tryParseJson(BufferToString(req.body.decoded)))>>
    ELSE IF hasBody(req)
    THEN <<RawBodyMatcher(BufferToString(req.body.decoded))>>
    ELSE <<>>

urlParts(req) == Split(req.parsedUrl, Ord("?"))

buildRequestMatchers(req) ==
    LET path == urlParts(req)[1]
        query == Join(Tail(urlParts(req)), Ord("?"))
    IN  << NewMethodMatcher(req.method),
           SimplePathMatcher(path),
           QueryMatcher(querystringParse(query)) >>
        \o bodyMatcher(req)

(***************************************************************************)
(* Rules built from traffic.                                               *)
(***************************************************************************)
CompletionAlways == [type |-> "always"]
RulesStore == "rulesStore"

PassThroughHandler(rulesStore) ==
    [type |-> "passthrough", rulesStore |-> rulesStore]
RequestBreakpointHandler(rulesStore) ==
    [type |-> "request-breakpoint", rulesStore |-> rulesStore]
StaticResponseHandler(status, statusMessage, data, headers) ==
    [type |-> "simple", status |-> status, statusMessage |-> statusMessage,
     data |-> data, headers |-> headers]
FromFileResponseHandler(status, statusMessage, filePath, headers) ==
    [type |-> "file", status |-> status, statusMessage |-> statusMessage,
     filePath |-> filePath, headers |-> headers]
ForwardToHostHandler(forwardToLocation, updateHostHeader, rulesStore) ==
    [type |-> "forward-to-host", forwardToLocation |-> forwardToLocation,
     updateHostHeader |-> updateHostHeader, rulesStore |-> rulesStore]
WebSocketPassThroughHandler(rulesStore) ==
    [type |-> "ws-passthrough", rulesStore |-> rulesStore]

\* What uuid() can return: version-4 identifiers, never one it returned
\* before.
UuidValues ==
    { "1b9d6bcd-bbfd-4b2d-9b5d-ab8dfbbd4bed",
      "9c858901-8a57-4791-81fe-4c455b099bc9",
      "6ec0bd7f-11c0-43da-975e-2a8ad9ebae0b" }

uuid(used) == UuidValues \ used

\* buildRuleFromRequest with a fixed identifier in place of uuid()'s.
buildRuleFromRequestFixedId(rulesStore, req, id) ==
    [ id |-> "default-forwarding-rule",
      type |-> "http",
      activated |-> TRUE,
      matchers |-> buildRequestMatchers(req),
      handler |-> RequestBreakpointHandler(rulesStore),
      completionChecker |-> CompletionAlways ]

\* buildRuleFromRequest, id being what its call of uuid() returned.
buildRuleFromRequest(rulesStore, req, id) ==
    [ id |-> id,
      type |-> "http",
      activated |-> TRUE,
      matchers |-> buildRequestMatchers(req),
      handler |-> RequestBreakpointHandler(rulesStore),
      completionChecker |-> CompletionAlways ]

(***************************************************************************)
(* Header objects, on the heap: a reference is an index of heap, an object *)
(* a function from its header names to their values.                       *)
(***************************************************************************)
EmptyObject == [name \in {} |-> <<>>]

ObjectDelete(obj, name) == [n \in DOMAIN obj \ {name} |-> obj[n]]

ObjectSet(obj, name, value) ==
    [n \in DOMAIN obj \cup {name} |-> IF n = name THEN value ELSE obj[n]]

\* Whether obj[name] is truthy: the header is there and its value is not
\* the empty string.
ObjectHasTruthy(obj, name) == name \in DOMAIN obj /\ obj[name] # <<>>

\* exchange.isSuccessfulExchange(): the exchange has a response, and is
\* neither pending nor aborted.
isSuccessfulExchange(ex) == ex.response.kind = "response"

\* http-docs' getStatusMessage: the reason phrase of a status code.
getStatusMessage(statusCode) ==
    CASE statusCode = 200 -> "OK"
      [] statusCode = 204 -> "No Content"
      [] statusCode = 404 -> "Not Found"
      [] statusCode = 500 -> "Internal Server Error"

PlaceholderBody == String(Str(<<"A", " ", "m", "o", "c", "k", " ", "r", "e", "s",
                                "p", "o", "n", "s", "e">>), 0)

\* The largest encoded response body, inclusive, that a rule includes.
ResponseBodyLimit == 1024 * 1024

\* The status, message and headers the rule starts from, and the heap with
\* the stand-in's fresh header object when the exchange did not succeed.
ResponseSource(h, ex) ==
    IF isSuccessfulExchange(ex)
    THEN [statusCode |-> ex.response.statusCode,
          statusMessage |-> ex.response.statusMessage,
          headers |-> ex.response.headers,
          heap |-> h]
    ELSE [statusCode |-> 200,
          statusMessage |-> "OK",
          headers |-> Len(h) + 1,
          heap |-> Append(h, EmptyObject)]

\* useResponseBody with the limit taken exclusive.
useResponseBodyBelowLimit(ex) ==
    /\ isSuccessfulExchange(ex)
    /\ ex.response.body.encoded.byteLength < ResponseBodyLimit
    /\ Truthy(ex.response.body.decoded)

useResponseBody(ex) ==
    /\ isSuccessfulExchange(ex)
    /\ ex.response.body.encoded.byteLength <= ResponseBodyLimit
    /\ Truthy(ex.response.body.decoded)

bodyContent(ex) ==
    IF useResponseBody(ex) THEN ex.response.body.decoded ELSE PlaceholderBody

\* CopyHeaders without the copy: the headers object itself.
AliasHeaders(h, headers) == [heap |-> h, ref |-> headers]

\* Object.assign({}, headers): a new object with the headers' entries.
CopyHeaders(h, headers) ==
    [heap |-> Append(h, h[headers]), ref |-> Len(h) + 1]

\* The four deletes and the content-length update, on the object itself.
SanitizeHeaders(obj, body) ==
    LET kept == ObjectDelete(ObjectDelete(ObjectDelete(ObjectDelete(obj,
                    "date"), "expires"), ":status"), "content-encoding")
    IN  IF ObjectHasTruthy(kept, "content-length")
        THEN ObjectSet(kept, "content-length", NumberToString(byteLength(body)))
        ELSE kept

\* StatusMessageOrDefault with the response's own message ignored.
StatusMessageFromCode(statusCode, statusMessage) == getStatusMessage(statusCode)

\* statusMessage || getStatusMessage(statusCode)
StatusMessageOrDefault(statusCode, statusMessage) ==
    IF statusMessage # "" THEN statusMessage ELSE getStatusMessage(statusCode)

\* buildRuleFromExchange on heap h, id being what its call of uuid()
\* returned: the rule it returns and the heap it leaves.
buildRuleFromExchange(h, ex, id) ==
    LET source == ResponseSource(h, ex)
        body == bodyContent(ex)
        copy == CopyHeaders(source.heap, source.headers)
        mockRuleHeaders == copy.ref
    IN  [ heap |-> [copy.heap EXCEPT
                       ![mockRuleHeaders] = SanitizeHeaders(@, body)],
          rule |->
            [ id |-> id,
              type |-> "http",
              activated |-> TRUE,
              matchers |-> buildRequestMatchers(ex.request),
              handler |-> StaticResponseHandler(
                  source.statusCode,
                  StatusMessageOrDefault(source.statusCode, source.statusMessage),
                  body,
                  mockRuleHeaders),
              completionChecker |-> CompletionAlways ] ]

(***************************************************************************)
(* The default rules.                                                      *)
(***************************************************************************)
\* The server range that serves a response from a file: ^0.1.1, that is
\* 0.1.x from 0.1.1 on.
FROM_FILE_HANDLER_SERVER_RANGE == [major |-> 0, minor |-> 1, patch |-> 1]

\* service-versions' versionSatisfies: whether a version <<major, minor,
\* patch>> is in a caret range.
versionSatisfies(version, range) ==
    IF range.major > 0
    THEN /\ version[1] = range.major
         /\ \/ version[2] > range.minor
            \/ version[2] = range.minor /\ version[3] >= range.patch
    ELSE /\ version[1] = 0
         /\ version[2] = range.minor
         /\ version[3] >= range.patch

amIUsingHtml == "amiusing.html"

AmIUsingRule ==
    [ id |-> "default-amiusing",
      type |-> "http",
      activated |-> TRUE,
      matchers |-> <<MethodMatcher("GET"), AmIUsingMatcher>>,
      completionChecker |-> CompletionAlways,
      handler |-> StaticResponseHandler(200, Undefined, amIUsingHtml,
          [name \in {"content-type", "cache-control", "httptoolkit-active"} |->
              CASE name = "content-type" -> "text/html"
                [] name = "cache-control" -> "no-store"
                [] name = "httptoolkit-active" -> "true"]) ]

CertificateRule(store) ==
    [ id |-> "default-certificate",
      type |-> "http",
      activated |-> TRUE,
      matchers |-> << MethodMatcher("GET"),
                      SimplePathMatcher("amiusing.httptoolkit.tech/certificate") >>,
      completionChecker |-> CompletionAlways,
      handler |-> FromFileResponseHandler(200, Undefined, store.certPath,
          [name \in {"content-type"} |-> "application/x-x509-ca-cert"]) ]

WildcardRule(rulesStore) ==
    [ id |-> "default-wildcard",
      type |-> "http",
      activated |-> TRUE,
      matchers |-> <<DefaultWildcardMatcher>>,
      completionChecker |-> CompletionAlways,
      handler |-> PassThroughHandler(rulesStore) ]

WebSocketWildcardRule(rulesStore) ==
    [ id |-> "default-ws-wildcard",
      type |-> "websocket",
      activated |-> TRUE,
      matchers |-> <<DefaultWebSocketWildcardMatcher>>,
      completionChecker |-> CompletionAlways,
      handler |-> WebSocketPassThroughHandler(rulesStore) ]

\* buildDefaultGroupRules without the version check.
buildDefaultGroupRulesUngated(rulesStore, store) ==
    <<AmIUsingRule, CertificateRule(store),
      WildcardRule(rulesStore), WebSocketWildcardRule(rulesStore)>>

buildDefaultGroupRules(rulesStore, store) ==
    <<AmIUsingRule>>
    \o (IF versionSatisfies(store.serverVersion, FROM_FILE_HANDLER_SERVER_RANGE)
        THEN <<CertificateRule(store)>>
        ELSE <<>>)
    \o <<WildcardRule(rulesStore), WebSocketWildcardRule(rulesStore)>>

buildDefaultGroupWrapper(items) ==
    [ id |-> "default-group",
      title |-> "Default rules",
      collapsed |-> TRUE,
      items |-> items ]

buildDefaultRulesRoot(rulesStore, store) ==
    [ id |-> "root",
      title |-> "HTTP Toolkit Rules",
      isRoot |-> TRUE,
      items |-> <<buildDefaultGroupWrapper(
                      buildDefaultGroupRules(rulesStore, store))>> ]

buildForwardingRuleIntegration(sourceHost, targetHost, rulesStore) ==
    [ id |-> "default-forwarding-rule",
      type |-> "http",
      activated |-> TRUE,
      matchers |-> <<WildcardMatcher, HostMatcher(sourceHost)>>,
      completionChecker |-> CompletionAlways,
      handler |-> ForwardToHostHandler(targetHost, TRUE, rulesStore) ]

\* The identifiers the code gives to what it builds by default.
DefaultIds ==
    { "default-amiusing", "default-certificate", "default-wildcard",
      "default-ws-wildcard", "default-forwarding-rule", "default-group", "root" }

(***************************************************************************)
(* Inputs.                                                                 *)
(***************************************************************************)
\* Texts of bodies: JSON of every kind of value, text that is no JSON.
BodyTexts ==
    { <<>>,
      <<"0">>,
      <<"1", "7">>,
      <<"-", "0">>,
      <<"n", "u", "l", "l">>,
      <<"t", "r", "u", "e">>,
      <<"f", "a", "l", "s", "e">>,
      <<"\"", "\"">>,
      <<"\"", "h", "i", "\"">>,
      <<"[", "]">>,
      <<"[", "0", ",", " ", "[", "]", "]">>,
      <<"{", "}">>,
      <<"{", "\"", "a", "\"", ":", "1", "}">>,
      <<"{", "\"", "a", "\"", ":", "1">>,
      <<"h", "i">>,
      <<"0", ",">> }

\* The bytes of the body texts, and bytes that are not ASCII: "h" and
\* U+00E9 in UTF-8, and a lone continuation byte.
BodyBytes ==
    {Utf8Encode(Str(text)) : text \in BodyTexts}
        \cup {<<104, 195, 169>>, <<34, 169, 34>>}

\* The sizes within MaxOver of a limit.
Around(limit) == (limit - MaxOver)..(limit + MaxOver)

\* Decoded request bodies: each text as it is, and padded with spaces to
\* the sizes around the body matcher limit.
RequestBuffers ==
    {Buffer(bytes, 0) : bytes \in BodyBytes}
        \cup {Buffer(bytes, size - Len(bytes)) :
                  bytes \in BodyBytes, size \in Around(BodyMatcherLimit)}

Urls ==
    { Str(<<"h", "t", "t", "p", ":", "/", "/", "a", ".", "c", "o", "/">>),
      Str(<<"h", "t", "t", "p", ":", "/", "/", "a", ".", "c", "o", "/", "p", "?">>),
      Str(<<"h", "t", "t", "p", ":", "/", "/", "a", ".", "c", "o", "/", "p", "?",
            "x", "=", "1", "&", "y", "&", "x", "=", "%", "4", "1", "+">>),
      Str(<<"h", "t", "t", "p", ":", "/", "/", "a", ".", "c", "o", "/", "p", "?",
            "q", "=", "a", "?", "b">>) }

Methods == {"GET", "POST", "PURGE"}
ContentTypes == {"json", "text"}

Requests ==
    [ method : Methods,
      parsedUrl : Urls,
      contentType : ContentTypes,
      body : [decoded : {Undefined} \cup RequestBuffers] ]

\* The requests of the exchanges: a JSON body, a raw body, no body.
ExchangeRequests ==
    { [ method |-> "POST", parsedUrl |-> Str(<<"/", "p", "?", "x", "=", "1">>),
        contentType |-> "json",
        body |-> [decoded |-> Buffer(Str(<<"{", "}">>), 0)] ],
      [ method |-> "PURGE", parsedUrl |-> Str(<<"/">>),
        contentType |-> "text",
        body |-> [decoded |-> Undefined] ] }

\* Header objects of responses: none, one or all of the headers the rule
\* drops, content-length absent, empty, "0" or "17", with or without a
\* header that passes through.
DroppedHeaders == {"date", "expires", ":status", "content-encoding"}

HeaderValue(name) ==
    CASE name = "date" -> Str(<<"M", "o", "n">>)
      [] name = "expires" -> Str(<<"0">>)
      [] name = ":status" -> Str(<<"2", "0", "0">>)
      [] name = "content-encoding" -> Str(<<"g", "z", "i", "p">>)
      [] name = "content-type" -> Str(<<"t", "e", "x", "t">>)

ContentLengthValues == {<<>>, Str(<<"0">>), Str(<<"1", "7">>)}

HeaderObjects ==
    LET basic == {{}} \cup {{name} : name \in DroppedHeaders} \cup {DroppedHeaders}
        names == basic \cup {{"content-type"}, DroppedHeaders \cup {"content-type"}}
        plain == {[name \in ns |-> HeaderValue(name)] : ns \in names}
    IN  plain \cup {ObjectSet(obj, "content-length", v) :
                       obj \in plain, v \in ContentLengthValues}

ResponseBuffers ==
    {Buffer(<<>>, 0), Buffer(<<104, 195, 169>>, 0)}

\* Responses, their headers being the object at reference 1.
Responses ==
    [ kind : {"response"},
      statusCode : {200, 404},
      statusMessage : {"", "Gone away"},
      headers : {1},
      body : [ encoded : [byteLength : {3} \cup Around(ResponseBodyLimit)],
               decoded : {Undefined} \cup ResponseBuffers ] ]

Versions == {<<0, 1, 0>>, <<0, 1, 1>>, <<0, 1, 2>>, <<0, 2, 1>>, <<1, 1, 1>>}
CertPaths == {"/ca.pem", "C:\\ca.pem"}
ProxyStores == [serverVersion : Versions, certPath : CertPaths]
Hosts == {"a.co", "b.co:8080", "localhost"}

(***************************************************************************)
(* The state machine.                                                      *)
(***************************************************************************)
NoCall == [op |-> "none"]

InitIdle ==
    /\ issued = {}
    /\ returned = <<>>
    /\ result = NoCall

\* A session holding a successful exchange, a pending or aborted one, a
\* request and a proxy store.
Init ==
    /\ InitIdle
    /\ request \in
         { [ method |-> "GET", parsedUrl |-> Str(<<"/">>), contentType |-> "text",
             body |-> [decoded |-> Buffer(Str(<<"h", "i">>), 0)] ] }
         \cup ExchangeRequests
    /\ \/ /\ heap = <<EmptyObject>>
          /\ exchange \in
               [ request : ExchangeRequests,
                 response : {r \in Responses :
                                /\ r.statusCode = 200
                                /\ r.body.encoded.byteLength = 3
                                /\ r.body.decoded = Buffer(<<>>, 0)} ]
       \/ /\ heap = <<>>
          /\ exchange \in
               [ request : ExchangeRequests,
                 response : {Undefined, [kind |-> "aborted"]} ]
    /\ proxyStore \in {s \in ProxyStores : s.certPath = "/ca.pem"}

\* Every request.
InitRequest ==
    /\ InitIdle
    /\ request \in Requests
    /\ exchange = Undefined
    /\ proxyStore = Undefined
    /\ heap = <<>>

\* Every exchange: with a response, pending and aborted.
InitExchange ==
    /\ InitIdle
    /\ request = Undefined
    /\ proxyStore = Undefined
    /\ \/ /\ heap \in {<<obj>> : obj \in HeaderObjects}
          /\ exchange \in [request : ExchangeRequests, response : Responses]
       \/ /\ heap = <<>>
          /\ exchange \in
               [ request : ExchangeRequests,
                 response : {Undefined, [kind |-> "aborted"]} ]

\* Every proxy store.
InitDefaults ==
    /\ InitIdle
    /\ request = Undefined
    /\ exchange = Undefined
    /\ proxyStore \in ProxyStores
    /\ heap = <<>>

BuildRuleFromRequest ==
    /\ request # Undefined
    /\ Len(returned) < MaxCalls
    /\ \E id \in uuid(issued) :
         LET rule == buildRuleFromRequest(RulesStore, request, id) IN
         /\ issued' = issued \cup {id}
         /\ result' = [op |-> "buildRuleFromRequest", value |-> rule]
         /\ returned' =
              Append(returned, [op |-> "buildRuleFromRequest", id |-> rule.id])
    /\ UNCHANGED <<request, exchange, proxyStore, heap>>

BuildRuleFromExchange ==
    /\ exchange # Undefined
    /\ Len(returned) < MaxCalls
    /\ \E id \in uuid(issued) :
         LET out == buildRuleFromExchange(heap, exchange, id) IN
         /\ issued' = issued \cup {id}
         /\ heap' = out.heap
         /\ result' = [op |-> "buildRuleFromExchange", value |-> out.rule]
         /\ returned' =
              Append(returned, [op |-> "buildRuleFromExchange", id |-> out.rule.id])
    /\ UNCHANGED <<request, exchange, proxyStore>>

BuildDefaultGroupRules ==
    /\ proxyStore # Undefined
    /\ result' = [op |-> "buildDefaultGroupRules",
                  value |-> buildDefaultGroupRules(RulesStore, proxyStore)]
    /\ UNCHANGED <<request, exchange, proxyStore, heap, issued, returned>>

BuildDefaultRulesRoot ==
    /\ proxyStore # Undefined
    /\ result' = [op |-> "buildDefaultRulesRoot",
                  value |-> buildDefaultRulesRoot(RulesStore, proxyStore)]
    /\ UNCHANGED <<request, exchange, proxyStore, heap, issued, returned>>

BuildForwardingRuleIntegration ==
    /\ proxyStore # Undefined
    /\ \E sourceHost \in Hosts, targetHost \in Hosts :
         result' = [op |-> "buildForwardingRuleIntegration",
                    value |-> buildForwardingRuleIntegration(
                                  sourceHost, targetHost, RulesStore)]
    /\ UNCHANGED <<request, exchange, proxyStore, heap, issued, returned>>

Next ==
    \/ BuildRuleFromRequest
    \/ BuildRuleFromExchange
    \/ BuildDefaultGroupRules
    \/ BuildDefaultRulesRoot
    \/ BuildForwardingRuleIntegration

NextRequest == BuildRuleFromRequest

NextExchange == BuildRuleFromExchange

NextDefaults ==
    \/ BuildDefaultGroupRules
    \/ BuildDefaultRulesRoot
    \/ BuildForwardingRuleIntegration

\* Any calls on one session.
Spec == Init /\ [][Next]_vars

\* buildRuleFromRequest on every request.
SpecRequest == InitRequest /\ [][NextRequest]_vars

\* buildRuleFromExchange on every exchange, once and again.
SpecExchange == InitExchange /\ [][NextExchange]_vars

\* The default-rule builders on every proxy store.
SpecDefaults == InitDefaults /\ [][NextDefaults]_vars

(***************************************************************************)
(* What the claims read of a state.                                        *)
(***************************************************************************)
RequestRuleBuilt == result.op = "buildRuleFromRequest"
ExchangeRuleBuilt == result.op = "buildRuleFromExchange"

\* The positions of the matchers of one of the given types.
MatchersOfType(ms, types) == {i \in 1..Len(ms) : ms[i].type \in types}

BodyMatcherTypes == {"json-body", "raw-body"}

\* A request's decoded body is there and shorter than 10,000.
SmallBody(req) ==
    /\ req.body.decoded # Undefined
    /\ Len(req.body.decoded.bytes) + req.body.decoded.pad < 10000

\* The text of a request's decoded body is JSON.
BodyParses(req) == JsonParse(BufferToString(req.body.decoded)) # Undefined

\* The size in bytes of what a handler carries: a buffer's bytes, a
\* string's UTF-8 bytes.
CarriedBytes(data) ==
    IF data.kind = "Buffer" THEN Len(data.bytes) + data.pad
    ELSE Len(Utf8Encode(data.chars)) + data.pad

\* The string "A mock response".
MockResponseText ==
    [ kind |-> "string", pad |-> 0,
      chars |-> <<65, 32, 109, 111, 99, 107, 32, 114, 101, 115, 112, 111, 110,
                  115, 101>> ]

\* The status, body and headers of the handler of a built rule.
HandlerView(res, h) ==
    [ status |-> res.value.handler.status,
      statusMessage |-> res.value.handler.statusMessage,
      data |-> res.value.handler.data,
      headers |-> h[res.value.handler.headers] ]

(***************************************************************************)
(* The claims.                                                             *)
(***************************************************************************)

\* C1: for every request whose decoded body exists, is shorter than 10,000,
\* is classified as JSON and parses as JSON, whatever the parsed value, the
\* matchers hold exactly one JSON-body matcher, whose value is the parsed
\* body, and no raw-body matcher.
C1_JsonMatcherForEveryParsedBody ==
    ( /\ RequestRuleBuilt
      /\ SmallBody(request)
      /\ request.contentType = "json"
      /\ BodyParses(request) )
    => LET ms == result.value.matchers
           json == MatchersOfType(ms, {"json-body"})
       IN  /\ Cardinality(json) = 1
           /\ \A i \in json :
                ms[i].body = JsonParse(BufferToString(request.body.decoded))
           /\ MatchersOfType(ms, {"raw-body"}) = {}

\* C2: for every successful exchange the handler's headers hold none of
\* date, expires, :status and content-encoding; when the response has a
\* content-length, the handler's content-length is the decimal size in bytes
\* of the body the handler carries; every other header of the response is in
\* the handler with its value, and the handler has no header the response
\* did not have.
C2_SanitizedHeaders ==
    (ExchangeRuleBuilt /\ isSuccessfulExchange(exchange))
    => LET original == heap[exchange.response.headers]
           built == heap[result.value.handler.headers]
       IN  /\ DOMAIN built \cap {"date", "expires", ":status", "content-encoding"} = {}
           /\ "content-length" \in DOMAIN original
                => /\ "content-length" \in DOMAIN built
                   /\ IsIntegerToken(built["content-length"])
                   /\ IntegerValue(built["content-length"])
                        = CarriedBytes(result.value.handler.data)
           /\ \A name \in DOMAIN original
                  \ {"date", "expires", ":status", "content-encoding", "content-length"} :
                name \in DOMAIN built /\ built[name] = original[name]
           /\ DOMAIN built \subseteq DOMAIN original

\* C3: the handler's body is the response's decoded body exactly when the
\* exchange succeeded, the encoded body is at most 1,048,576 bytes and the
\* body was decoded; in every other case it is the string "A mock response".
C3_BodyInclusion ==
    ExchangeRuleBuilt
    => LET data == result.value.handler.data
           included == /\ isSuccessfulExchange(exchange)
                       /\ exchange.response.body.encoded.byteLength <= 1048576
                       /\ exchange.response.body.decoded # Undefined
       IN  /\ included => data = exchange.response.body.decoded
           /\ ~included => data = MockResponseText
           /\ (isSuccessfulExchange(exchange) /\ ~included)
                => data # exchange.response.body.decoded

\* C3's case: a decoded body of exactly 1,048,576 encoded bytes, included.
C3_Witness ==
    /\ ExchangeRuleBuilt
    /\ isSuccessfulExchange(exchange)
    /\ exchange.response.body.encoded.byteLength = 1048576
    /\ exchange.response.body.decoded # Undefined
    /\ result.value.handler.data = exchange.response.body.decoded

\* C4: buildDefaultGroupRules returns the probe, HTTP wildcard and WebSocket
\* wildcard rules, in this order, when the server version does not satisfy
\* the range, and the same with the certificate rule after the probe rule
\* when it does; every rule is activated and always complete.
C4_DefaultRules ==
    result.op = "buildDefaultGroupRules"
    => LET rules == result.value
           ids == [i \in 1..Len(rules) |-> rules[i].id]
           gate == versionSatisfies(proxyStore.serverVersion,
                                    FROM_FILE_HANDLER_SERVER_RANGE)
       IN  /\ ~gate => ids = <<"default-amiusing", "default-wildcard",
                               "default-ws-wildcard">>
           /\ gate => ids = <<"default-amiusing", "default-certificate",
                              "default-wildcard", "default-ws-wildcard">>
           /\ \A i \in 1..Len(rules) :
                /\ rules[i].activated = TRUE
                /\ rules[i].completionChecker = [type |-> "always"]

\* C4's case: the version does not satisfy the range and three rules came.
C4_Witness ==
    /\ result.op = "buildDefaultGroupRules"
    /\ ~versionSatisfies(proxyStore.serverVersion, FROM_FILE_HANDLER_SERVER_RANGE)
    /\ Len(result.value) = 3

\* C5: the matchers are [method, path, query, body?]: a method matcher for
\* a recognized method and the wildcard matcher otherwise, an exact-path
\* matcher, a query matcher, and a body matcher only as the fourth and last.
C5_MatcherShape ==
    RequestRuleBuilt
    => LET ms == result.value.matchers IN
       /\ Len(ms) \in {3, 4}
       /\ ms[1] = IF request.method \in MethodNames
                  THEN [type |-> "method", method |-> request.method]
                  ELSE [type |-> "wildcard"]
       /\ ms[2].type = "simple-path"
       /\ ms[3].type = "query"
       /\ MatchersOfType(ms, BodyMatcherTypes) \subseteq {4}
       /\ Len(ms) = 4 => ms[4].type \in BodyMatcherTypes

\* C5's case: an unrecognized method, and a body matcher in fourth place.
C5_Witness ==
    /\ RequestRuleBuilt
    /\ request.method \notin MethodNames
    /\ Len(result.value.matchers) = 4
    /\ result.value.matchers[1].type = "wildcard"

\* C6: a decoded body of 10,000 bytes or more, or none, gets no body
\* matcher of either kind; a body of 9,999 bytes gets one.
C6_NoMatcherForLargeBody ==
    RequestRuleBuilt
    => LET bodies == MatchersOfType(result.value.matchers, BodyMatcherTypes)
           decoded == request.body.decoded
       IN  /\ decoded = Undefined => bodies = {}
           /\ (decoded # Undefined /\ Len(decoded.bytes) + decoded.pad >= 10000)
                => bodies = {}
           /\ (decoded # Undefined /\ Len(decoded.bytes) + decoded.pad = 9999)
                => Cardinality(bodies) = 1

\* C6's case: a JSON body of exactly 10,000 bytes that parses, unmatched.
C6_Witness ==
    /\ RequestRuleBuilt
    /\ request.body.decoded # Undefined
    /\ Len(request.body.decoded.bytes) + request.body.decoded.pad = 10000
    /\ request.contentType = "json"
    /\ BodyParses(request)
    /\ Len(result.value.matchers) = 3

\* C7: a decoded body shorter than 10,000 that is not classified as JSON,
\* or is and does not parse, gets exactly one raw-body matcher, holding the
\* decoded text, and no JSON-body matcher.
C7_RawMatcherForNonJson ==
    ( /\ RequestRuleBuilt
      /\ SmallBody(request)
      /\ (request.contentType # "json" \/ ~BodyParses(request)) )
    => LET ms == result.value.matchers
           raw == MatchersOfType(ms, {"raw-body"})
       IN  /\ Cardinality(raw) = 1
           /\ \A i \in raw :
                ms[i].content =
                    [ kind |-> "string",
                      chars |-> Utf8Decode(request.body.decoded.bytes),
                      pad |-> request.body.decoded.pad ]
           /\ MatchersOfType(ms, {"json-body"}) = {}

\* C7's case: a body classified as JSON that does not parse, matched raw.
C7_Witness ==
    /\ RequestRuleBuilt
    /\ SmallBody(request)
    /\ request.contentType = "json"
    /\ ~BodyParses(request)
    /\ MatchersOfType(result.value.matchers, {"raw-body"}) = {4}

\* C8: over any calls of buildRuleFromRequest and buildRuleFromExchange,
\* every returned rule's id differs from the id of every rule returned
\* before it and from every fixed default identifier.
C8_FreshIds ==
    \A i \in 1..Len(returned) :
        /\ returned[i].id \notin DefaultIds
        /\ \A j \in 1..(i - 1) : returned[j].id # returned[i].id

\* C8's case: a rule from a request and a rule from an exchange returned.
C8_Witness ==
    /\ Len(returned) >= 2
    /\ \E i, j \in 1..Len(returned) :
         /\ returned[i].op = "buildRuleFromRequest"
         /\ returned[j].op = "buildRuleFromExchange"

\* A step leaves the exchange and its response's header object as they
\* were, and a call after a call returns the same status, body and headers.
C9_Step ==
    /\ exchange' = exchange
    /\ isSuccessfulExchange(exchange)
         => heap'[exchange.response.headers] = heap[exchange.response.headers]
    /\ (ExchangeRuleBuilt /\ ExchangeRuleBuilt')
         => HandlerView(result', heap') = HandlerView(result, heap)

\* C9: buildRuleFromExchange leaves the exchange unchanged: the response's
\* header object holds after a call what it held before, and a second call
\* on the exchange returns a handler of the same status, body and headers.
C9_ExchangeUnchanged == [][C9_Step]_vars

\* C9's case: two calls on a successful exchange whose response has every
\* header the rule drops, and a content-length.
C9_Witness ==
    /\ Len(returned) = 2
    /\ ExchangeRuleBuilt
    /\ isSuccessfulExchange(exchange)
    /\ {"date", "expires", ":status", "content-encoding", "content-length"}
         \subseteq DOMAIN heap[exchange.response.headers]

\* C10: for an exchange that did not succeed, pending or aborted, the rule
\* is an activated HTTP rule with the matchers of the exchange's request
\* and a static response of 200, "OK", no headers and "A mock response";
\* for one that succeeded the status message is the response's own when it
\* has one, and the status code's reason phrase otherwise.
C10_FallbackResponse ==
    ExchangeRuleBuilt
    => LET rule == result.value IN
       IF ~isSuccessfulExchange(exchange)
       THEN /\ rule.activated = TRUE
            /\ rule.type = "http"
            /\ rule.matchers = buildRequestMatchers(exchange.request)
            /\ rule.handler.type = "simple"
            /\ rule.handler.status = 200
            /\ rule.handler.statusMessage = "OK"
            /\ DOMAIN heap[rule.handler.headers] = {}
            /\ rule.handler.data = MockResponseText
       ELSE rule.handler.statusMessage =
                IF exchange.response.statusMessage # ""
                THEN exchange.response.statusMessage
                ELSE getStatusMessage(exchange.response.statusCode)

\* C10's case: a rule built from a pending exchange.
C10_Witness ==
    /\ ExchangeRuleBuilt
    /\ exchange.response = Undefined

====
